---- MODULE Spec2Model ----
(***************************************************************************)
(* A model of data.py: the dataset partitioner (DataBase.get_files and     *)
(* get_files_packed), the grouping shuffle (DataBase.group_shuffle), the   *)
(* batch assembly (process_sample, extract_batch) and the prefetching      *)
(* batch generator (_gen_batches_origin, _gen_batches_packed).             *)
(*                                                                         *)
(* Python lists are sequences; a Python index p is the TLA+ index p + 1.   *)
(* An unpacked dataset entry (file, label) is the tuple <<file, label>>,   *)
(* so Python's d[0] is d[1] here.  A packed entry, the archive's path, is *)
(* the tuple <<path>>.  Files and paths are numbered 1, 2, ... in          *)
(* discovery order.                                                        *)
(***************************************************************************)
EXTENDS Integers, Sequences, FiniteSets, TLC

VARIABLES
    config,      \* the configuration object handed to DataBase.__init__
    listing,     \* what file discovery returns, in order
    durations,   \* file |-> number of samples the file decodes to
    corrupt,     \* the files whose decoding raises
    self,        \* the fields DataBase.get_files assigns
    status,      \* outcome of DataBase.__init__: "new", "ok" or the exception
    data_list,   \* the list handed to the partitioner (get_files_origin's result)
    pc,          \* position of the generator
    call,        \* arguments of the running _gen_batches call; dataset is the
                 \* list object that the attribute self.<attr> holds
    _dataset,    \* generator local
    epoch,       \* generator local
    step,        \* generator local
    step_stop,   \* generator local
    futures,     \* generator local: submitted futures not yet popped
    awaiting,    \* the popped (or drained) future whose result() is awaited, or 0
    idx,         \* position of the final "for future in futures" loop
    work,        \* the pool: one record per submitted unit, in submission order
                 \* (result is read only once done is TRUE)
    executor,    \* the pool: "none", "open", "joining" (the with block is being
                 \* left, shutdown(wait=True) waits for the units) or "shutdown"
    yielded,     \* the units whose batch the consumer received, in order
    overtook,    \* whether some unit completed before an earlier-submitted one
    gs_pc,       \* position of a stand-alone group_shuffle call
    gs_args,     \* its arguments
    gs_mid,      \* its list after random.shuffle and the truncation
    gs_out,      \* its list on return, and whether the assertion failed
    gs_frame,    \* the locals of a group_shuffle call run statement by statement
    ps_frame     \* the arguments and locals of a process_sample call run
                 \* statement by statement, amplitudes included

vars == <<config, listing, durations, corrupt, self, status, data_list,
          pc, call, _dataset, epoch, step, step_stop, futures, awaiting, idx,
          work, executor, yielded, overtook, gs_pc, gs_args, gs_mid, gs_out,
          gs_frame, ps_frame>>

envVars == <<config, listing, durations, corrupt>>
objVars == <<self, status, data_list>>
genVars == <<pc, call, _dataset, epoch, step, step_stop, futures, awaiting,
             idx, work, executor, yielded, overtook>>
gsVars == <<gs_pc, gs_args, gs_mid, gs_out, gs_frame>>
psVars == <<ps_frame>>

\* Python's None in an integer attribute (the attributes are never negative)
None == -1
\* an attribute holding a list that has not been assigned
NoList == <<<<>>>>

(***************************************************************************)
(* Bounds of the model.                                                    *)
(***************************************************************************)
MaxFiles == 4        \* longest discovered list
MaxPrefetch == 3     \* largest prefetch depth
MaxEpochs == 2       \* largest num_epochs
MaxSteps == 3        \* largest configured max_steps
MaxEpochSteps == 2   \* most steps per epoch of a generation call
MaxDuration == 3     \* longest file, in samples
SliceSamples == 2    \* int(abs(pp_duration) * rate + 0.5) for pp_duration /= 0
MaxGroupList == 5    \* longest list handed to a stand-alone group_shuffle
MaxShuffled == 2     \* longest such list handed over with shuffle true
MaxAmplitude == 2    \* amplitudes are k / MaxAmplitude, -MaxAmplitude <= k <= MaxAmplitude
BatchSizes == {1, 2}
GroupSizes == {1, 2}
Labels == {0, 1}

(***************************************************************************)
(* Python helpers.                                                         *)
(***************************************************************************)
Min(a, b) == IF a <= b THEN a ELSE b
Max(a, b) == IF a >= b THEN a ELSE b

\* s[a:b] for 0 <= a, 0 <= b
Slice(s, a, b) == SubSeq(s, a + 1, Min(b, Len(s)))

\* s[a:] for 0 <= a
SliceFrom(s, a) == SubSeq(s, a + 1, Len(s))

Range(s) == {s[i] : i \in 1..Len(s)}

\* list.remove(x): drops the first occurrence
ListRemove(s, x) ==
    LET p == CHOOSE i \in 1..Len(s) : s[i] = x /\ \A j \in 1..(i - 1) : s[j] /= x
    IN  SubSeq(s, 1, p - 1) \o SubSeq(s, p + 1, Len(s))

Perms(n) == {p \in [1..n -> 1..n] : \A i, j \in 1..n : p[i] = p[j] => i = j}
Identity(n) == [i \in 1..n |-> i]

\* the outcomes of random.shuffle on a list of length n (all of them), or the
\* list left as it is when shuffle is false
ShuffleChoices(n, shuffle) == IF shuffle THEN Perms(n) ELSE {Identity(n)}

Permute(s, p) == [i \in 1..Len(s) |-> s[p[i]]]

(***************************************************************************)
(* DataBase.group_shuffle.  perm is the outcome of random.shuffle.  The    *)
(* list is changed in place, so the result is the list as the call leaves  *)
(* it together with whether the assertion failed.                          *)
(***************************************************************************)
\* lines 84-95: for k in range(j, upper), j being the value at loop entry
RECURSIVE group_scan(_, _, _, _, _, _, _, _)
group_scan(dataset, ids, counts, j, k, upper, i, batch_size) ==
    IF k >= upper THEN dataset
    ELSE
        LET data == dataset[k + 1]
            id_ == data[1]
        IN  IF id_ \in Range(ids) /\ counts[id_] > 0
            THEN
                LET counts2 == [counts EXCEPT ![id_] = @ - 1]
                    ids2 == IF counts2[id_] <= 0 THEN ListRemove(ids, id_) ELSE ids
                    dataset2 == [dataset EXCEPT ![k + 1] = dataset[j + 1],
                                                ![j + 1] = data]
                IN  IF j + 1 >= i + batch_size
                    THEN dataset2
                    ELSE group_scan(dataset2, ids2, counts2, j + 1, k + 1,
                                    upper, i, batch_size)
            ELSE group_scan(dataset, ids, counts, j, k + 1, upper, i, batch_size)

\* lines 80-83: for i in range(0, upper, batch_size)
RECURSIVE group_windows(_, _, _, _, _)
group_windows(dataset, i, upper, batch_size, group_size) ==
    IF i >= upper THEN dataset
    ELSE
        LET batch_groups == batch_size \div group_size
            j == i + batch_groups
            ids == [n \in 1..(Min(j, Len(dataset)) - i) |-> dataset[i + n][1]]
            counts == [x \in Range(ids) |-> group_size - 1]
        IN  group_windows(
                group_scan(dataset, ids, counts, j, j, upper, i, batch_size),
                i + batch_size, upper, batch_size, group_size)

\* lines 71-76: the list after random.shuffle and the trailing pops
group_truncate(dataset, batch_size, perm) ==
    LET shuffled == Permute(dataset, perm)
    IN  SubSeq(shuffled, 1, Len(shuffled) - (Len(shuffled) % batch_size))

group_shuffle(dataset, batch_size, group_size, perm) ==
    LET truncated == group_truncate(dataset, batch_size, perm)
    IN  IF batch_size % group_size /= 0
        THEN [dataset |-> truncated, failed |-> TRUE]
        ELSE [dataset |-> group_windows(truncated, 0, Len(truncated),
                                        batch_size, group_size),
              failed |-> FALSE]

(***************************************************************************)
(* File discovery.  DataVoxCeleb.get_files_origin and                      *)
(* DataSpeech.get_files_origin both build the list of (file, label) and    *)
(* end with group_shuffle(data_list, batch_size, shuffle, group_size).     *)
(***************************************************************************)
get_files_origin(files, cfg, perm) ==
    group_shuffle(files, cfg.batch_size, cfg.group_size, perm)

(***************************************************************************)
(* The fields of a DataBase object after __init__ has copied the           *)
(* configuration and before get_files has run.                             *)
(***************************************************************************)
NewSelf(cfg) ==
    [val_size |-> cfg.val_size, max_steps |-> cfg.max_steps,
     num_epochs |-> cfg.num_epochs, val_steps |-> None, val_set |-> NoList,
     epoch_steps |-> None, epoch_size |-> None, main_set |-> NoList]

\* a num_epochs rounded down
num_epochs_floor(max_steps, epoch_steps) == max_steps \div epoch_steps

\* lines 109-114 and 136-141: epoch_steps, epoch_size, max_steps, num_epochs
num_epochs_for(max_steps, epoch_steps) ==
    (max_steps + epoch_steps - 1) \div epoch_steps

set_epochs(s, epoch_steps, batch_size) ==
    LET s1 == [s EXCEPT !.epoch_steps = epoch_steps,
                        !.epoch_size = epoch_steps * batch_size]
    IN  IF s.max_steps = None
        THEN IF s.num_epochs = None
             THEN [self |-> s1, status |-> "TypeError"]
             ELSE [self |-> [s1 EXCEPT !.max_steps = epoch_steps * s.num_epochs],
                   status |-> "ok"]
        ELSE IF epoch_steps = 0
             THEN [self |-> s1, status |-> "ZeroDivisionError"]
             ELSE [self |-> [s1 EXCEPT !.num_epochs =
                                 num_epochs_for(s.max_steps, epoch_steps)],
                   status |-> "ok"]

\* lines 101-106 of get_files_packed
packed_val_split(s, list, batch_size) ==
    IF s.val_size = None THEN [self |-> s, data_list |-> list, status |-> "ok"]
    ELSE
        LET val_steps == s.val_size \div batch_size
            s1 == [s EXCEPT !.val_steps = val_steps]
        IN  IF ~(val_steps < Len(list))
            THEN [self |-> s1, data_list |-> list, status |-> "AssertionError"]
            ELSE [self |-> [s1 EXCEPT !.val_size = val_steps * batch_size,
                                      !.val_set = Slice(list, 0, val_steps)],
                  data_list |-> SliceFrom(list, val_steps),
                  status |-> "ok"]

\* lines 97-115
get_files_packed(s, list, cfg) ==
    LET v == packed_val_split(s, list, cfg.batch_size)
    IN  IF v.status /= "ok" THEN [self |-> v.self, status |-> v.status]
        ELSE
            LET e == set_epochs(v.self, Len(v.data_list), cfg.batch_size)
            IN  IF e.status /= "ok" THEN e
                ELSE [self |-> [e.self EXCEPT !.main_set = v.data_list],
                      status |-> "ok"]

\* a split at the configured val_size, not rounded down to whole batches
origin_val_split_unrounded(s, list, batch_size) ==
    IF s.val_size = None THEN [self |-> s, data_list |-> list, status |-> "ok"]
    ELSE IF ~(s.val_size < Len(list))
    THEN [self |-> s, data_list |-> list, status |-> "AssertionError"]
    ELSE [self |-> [s EXCEPT !.val_steps = s.val_size \div batch_size,
                            !.val_set = Slice(list, 0, s.val_size)],
          data_list |-> SliceFrom(list, s.val_size),
          status |-> "ok"]

\* a main set that starts at val_steps, as the packed split does
origin_val_split_by_steps(s, list, batch_size) ==
    IF s.val_size = None THEN [self |-> s, data_list |-> list, status |-> "ok"]
    ELSE IF ~(s.val_size < Len(list))
    THEN [self |-> s, data_list |-> list, status |-> "AssertionError"]
    ELSE
        LET val_steps == s.val_size \div batch_size
            val_size == val_steps * batch_size
        IN  [self |-> [s EXCEPT !.val_steps = val_steps,
                                !.val_size = val_size,
                                !.val_set = Slice(list, 0, val_size)],
             data_list |-> SliceFrom(list, val_steps),
             status |-> "ok"]

\* an assertion that lets val_size = len(data_list) pass
origin_val_split_weak(s, list, batch_size) ==
    IF s.val_size = None THEN [self |-> s, data_list |-> list, status |-> "ok"]
    ELSE IF ~(s.val_size <= Len(list))
    THEN [self |-> s, data_list |-> list, status |-> "AssertionError"]
    ELSE
        LET val_steps == s.val_size \div batch_size
            val_size == val_steps * batch_size
        IN  [self |-> [s EXCEPT !.val_steps = val_steps,
                                !.val_size = val_size,
                                !.val_set = Slice(list, 0, val_size)],
             data_list |-> SliceFrom(list, val_size),
             status |-> "ok"]

\* lines 127-133 of get_files
origin_val_split(s, list, batch_size) ==
    IF s.val_size = None THEN [self |-> s, data_list |-> list, status |-> "ok"]
    ELSE IF ~(s.val_size < Len(list))
    THEN [self |-> s, data_list |-> list, status |-> "AssertionError"]
    ELSE
        LET val_steps == s.val_size \div batch_size
            val_size == val_steps * batch_size
        IN  [self |-> [s EXCEPT !.val_steps = val_steps,
                                !.val_size = val_size,
                                !.val_set = Slice(list, 0, val_size)],
             data_list |-> SliceFrom(list, val_size),
             status |-> "ok"]

\* lines 125-142, list being what get_files_origin returned
get_files_unpacked(s, list, cfg) ==
    LET v == origin_val_split(s, list, cfg.batch_size)
    IN  IF v.status /= "ok" THEN [self |-> v.self, status |-> v.status]
        ELSE IF ~(cfg.batch_size <= Len(v.data_list))
        THEN [self |-> v.self, status |-> "AssertionError"]
        ELSE
            LET e == set_epochs(v.self, Len(v.data_list) \div cfg.batch_size,
                                cfg.batch_size)
            IN  IF e.status /= "ok" THEN e
                ELSE [self |-> [e.self EXCEPT !.main_set =
                                    Slice(v.data_list, 0, e.self.epoch_size)],
                      status |-> "ok"]

\* lines 121-142, with the list of entries found and the outcome of random.shuffle
get_files(s, files, cfg, perm) ==
    IF cfg.packed
    THEN get_files_packed(s, files, cfg) @@ [data_list |-> files]
    ELSE
        LET g == get_files_origin(files, cfg, perm)
        IN  IF g.failed
            THEN [self |-> s, status |-> "AssertionError", data_list |-> NoList]
            ELSE get_files_unpacked(s, g.dataset, cfg) @@ [data_list |-> g.dataset]

(***************************************************************************)
(* Batch assembly.  Only the shapes of the arrays are modelled.            *)
(* pp_duration is modelled by its sign: -1, 0 or 1.                        *)
(***************************************************************************)
Failure == [ok |-> FALSE, inputs |-> <<>>, labels |-> <<>>]

\* lines 151-161: the lengths librosa.load(offset, duration=slice_duration) may
\* return.  With pp_duration > 0 and a file longer than the slice the random
\* offset leaves a whole slice; otherwise the file is read from its start, up
\* to the slice.  duration=0.0 reads nothing or, read as "no slicing", the
\* whole file.
load_lengths(samples, pp_duration) ==
    IF pp_duration = 0 THEN {0, samples}
    ELSE {Min(samples, SliceSamples)}

\* lines 162-177: the shape of the array process_sample returns for a decoded
\* signal of the given length; np.max of an empty array raises
sample_shape(samples, pp_duration) ==
    LET slice_samples == IF pp_duration = 0 THEN 0 ELSE SliceSamples
    IN  IF samples = 0 THEN [ok |-> FALSE, shape |-> <<>>]
        ELSE [ok |-> TRUE,
              shape |-> <<1, IF samples < slice_samples THEN slice_samples
                             ELSE samples>>]

\* lines 148-177
process_sample(file, pp_duration, durs, bad) ==
    IF file \in bad THEN {[ok |-> FALSE, shape |-> <<>>]}
    ELSE {sample_shape(n, pp_duration) : n \in load_lengths(durs[file], pp_duration)}

SeqMax(s) == CHOOSE m \in Range(s) : \A x \in Range(s) : x <= m

\* line 204: np.pad(i, (0, n), 'constant') pads every axis of i by (0, n)
np_pad(shape, n) == [a \in 1..Len(shape) |-> shape[a] + n]

\* a batch stacked without the unit height dimension (NCW)
stack_batch_ncw(shapes, labels, pp_duration) ==
    IF Len(shapes) = 0 THEN Failure
    ELSE [ok |-> TRUE,
          inputs |-> <<Len(shapes), shapes[1][1], shapes[1][2]>>,
          labels |-> <<Len(labels)>>]

\* lines 201-211, given the arrays' shapes: pad, np.stack, np.expand_dims(-2)
stack_batch(shapes, labels, pp_duration) ==
    IF Len(shapes) = 0 THEN Failure
    ELSE
        LET max_samples == SeqMax([i \in 1..Len(shapes) |-> shapes[i][2]])
            inputs == IF pp_duration <= 0
                      THEN [i \in 1..Len(shapes) |->
                               np_pad(shapes[i], max_samples - shapes[i][2])]
                      ELSE shapes
        IN  IF \E i \in 1..Len(inputs) : inputs[i] /= inputs[1]
            THEN Failure
            ELSE [ok |-> TRUE,
                  inputs |-> <<Len(inputs), inputs[1][1], 1, inputs[1][2]>>,
                  labels |-> <<Len(labels)>>]

\* lines 180-211: every result extract_batch may have for the window
extract_batch(batch_set, pp_duration, durs, bad) ==
    LET outcomes == UNION {process_sample(batch_set[i][1], pp_duration, durs, bad) :
                               i \in 1..Len(batch_set)}
        runs == {f \in [1..Len(batch_set) -> outcomes] :
                    \A i \in 1..Len(batch_set) :
                        f[i] \in process_sample(batch_set[i][1], pp_duration, durs, bad)}
    IN  {IF \E i \in 1..Len(batch_set) : ~f[i].ok
         THEN Failure
         ELSE stack_batch([i \in 1..Len(batch_set) |-> f[i].shape],
                          [i \in 1..Len(batch_set) |-> batch_set[i][2]],
                          pp_duration) : f \in runs}

\* lines 214-218: the arrays of the archive as stored; their shapes are not modelled
extract_batch_packed(batch_set, bad) ==
    IF batch_set[1] \in bad THEN {Failure}
    ELSE {[ok |-> TRUE, inputs |-> <<>>, labels |-> <<>>]}

(***************************************************************************)
(* The batch generator: _gen_batches_packed (lines 220-241) and            *)
(* _gen_batches_origin (lines 243-271).  The body of a generator runs only *)
(* between the consumer's next() and the following yield.  pc is           *)
(*   "idle"    no generation call made                                     *)
(*   "start"   generator created, body not started                         *)
(*   "epoch"   at the head of the loop over epochs                         *)
(*   "step"    at the head of the loop over steps                          *)
(*   "while"   at the test of "while len(futures) >= self.prefetch"        *)
(*   "result"  in futures.pop(0).result()                                  *)
(*   "yield"   suspended at the yield of the while loop                    *)
(*   "drain"   at the head of "for future in futures"                      *)
(*   "dresult" in future.result() of that loop                             *)
(*   "dyield"  suspended at the yield of that loop                         *)
(*   "done"    returned (StopIteration)                                    *)
(*   "raised"  left by an exception                                        *)
(*   "closed"  closed by the consumer                                      *)
(***************************************************************************)
\* a while loop that lets the list grow one past the prefetch depth
beyond_prefetch_late(fs, prefetch) == Len(fs) > prefetch

\* line 237 / 267: the test of the while loop
beyond_prefetch(fs, prefetch) == Len(fs) >= prefetch

\* a pop that takes the newest future
pop_newest(fs) == Len(fs)

\* line 238 / 268: futures.pop(0) takes the oldest future
pop_index(fs) == 1

\* lines 252-254 (228-230)
step_offset_of(e, epoch_steps) == epoch_steps * e

\* a first epoch that ignores the step to resume from
step_start_zero(e, epoch_steps, start) == 0

step_start_of(e, epoch_steps, start) == Max(0, start - step_offset_of(e, epoch_steps))
step_stop_of(e, epoch_steps, num_epochs) ==
    Min(epoch_steps, epoch_steps * num_epochs - step_offset_of(e, epoch_steps))

\* a reshuffle in every epoch, the first included
reshuffles_always(e) == e >= 0

\* line 256: the list is copied and reshuffled in every epoch but the first
reshuffles(e) == e > 0

\* lines 261-263 (233): the window of a step
batch_set_of(list, s, batch_size, packed) ==
    IF packed THEN list[s + 1]
    ELSE LET offset == s * batch_size
             upper == Min(Len(list), offset + batch_size)
         IN  Slice(list, offset, upper)

\* a with block left without shutting the pool down
with_exit_leaks(ex) == ex

\* line 248 (224): leaving the with block, by return or by an exception,
\* calls executor.shutdown(wait=True)
with_exit(ex) == IF ex = "open" THEN "joining" ELSE ex

\* first next(): lines 245-251 (221-227)
Begin ==
    /\ pc = "start"
    /\ _dataset' = call.dataset
    /\ futures' = <<>>
    /\ IF call.epoch_steps = 0
       THEN /\ pc' = "raised"
            /\ executor' = with_exit("open")
            /\ epoch' = epoch
       ELSE /\ pc' = "epoch"
            /\ executor' = "open"
            /\ epoch' = call.start \div call.epoch_steps
    /\ UNCHANGED <<call, step, step_stop, awaiting, idx, work, yielded, overtook>>
    /\ UNCHANGED <<envVars, objVars, gsVars, psVars>>

\* a reshuffle of the caller's list itself
shuffled_in_place(dataset, shuffled) == shuffled

\* line 257: _dataset = dataset.copy(); group_shuffle changes the copy in
\* place and the list object the caller passed stays as it is
caller_list(dataset, shuffled) == dataset

\* lines 251-258 (227-230): one more epoch
EpochBegin ==
    /\ pc = "epoch"
    /\ epoch < call.num_epochs
    /\ step' = step_start_of(epoch, call.epoch_steps, call.start)
    /\ step_stop' = step_stop_of(epoch, call.epoch_steps, call.num_epochs)
    /\ IF reshuffles(epoch) /\ ~config.packed
       THEN \E perm \in ShuffleChoices(Len(call.dataset), call.shuffle) :
                LET g == group_shuffle(call.dataset, config.batch_size,
                                       config.group_size, perm)
                    kept == caller_list(call.dataset, g.dataset)
                IN  /\ _dataset' = g.dataset
                    /\ call' = [call EXCEPT !.dataset = kept]
                    /\ self' = [self EXCEPT ![call.attr] = kept]
                    /\ pc' = IF g.failed THEN "raised" ELSE "step"
                    /\ executor' = IF g.failed THEN with_exit(executor)
                                    ELSE executor
       ELSE /\ pc' = "step"
            /\ UNCHANGED <<_dataset, executor, call, self>>
    /\ UNCHANGED <<epoch, futures, awaiting, idx, work, yielded, overtook>>
    /\ UNCHANGED <<envVars, status, data_list, gsVars, psVars>>

\* line 251 (227): the loop over epochs is exhausted
EpochsEnd ==
    /\ pc = "epoch"
    /\ epoch >= call.num_epochs
    /\ pc' = "drain"
    /\ idx' = 1
    /\ UNCHANGED <<call, _dataset, epoch, step, step_stop, futures, awaiting,
                   work, executor, yielded, overtook>>
    /\ UNCHANGED <<envVars, objVars, gsVars, psVars>>

\* lines 260-265 (232-235): submit the unit of work of one step
Submit ==
    /\ pc = "step"
    /\ step < step_stop
    /\ work' = Append(work,
          [gstep |-> step_offset_of(epoch, call.epoch_steps) + step,
           epoch |-> epoch,
           batch_set |-> batch_set_of(_dataset, step, config.batch_size,
                                      config.packed),
           done |-> FALSE,
           result |-> Failure])
    /\ futures' = Append(futures, Len(work) + 1)
    /\ pc' = "while"
    /\ UNCHANGED <<call, _dataset, epoch, step, step_stop, awaiting, idx,
                   executor, yielded, overtook>>
    /\ UNCHANGED <<envVars, objVars, gsVars, psVars>>

\* line 260 (232): the loop over steps is exhausted
StepsEnd ==
    /\ pc = "step"
    /\ step >= step_stop
    /\ epoch' = epoch + 1
    /\ pc' = "epoch"
    /\ UNCHANGED <<call, _dataset, step, step_stop, futures, awaiting, idx,
                   work, executor, yielded, overtook>>
    /\ UNCHANGED <<envVars, objVars, gsVars, psVars>>

\* lines 267-268 (237-238): futures.pop(0)
Pop ==
    /\ pc = "while"
    /\ beyond_prefetch(futures, config.prefetch)
    /\ awaiting' = futures[pop_index(futures)]
    /\ futures' = [i \in 1..(Len(futures) - 1) |->
                      IF i < pop_index(futures) THEN futures[i] ELSE futures[i + 1]]
    /\ pc' = "result"
    /\ UNCHANGED <<call, _dataset, epoch, step, step_stop, idx, work, executor,
                   yielded, overtook>>
    /\ UNCHANGED <<envVars, objVars, gsVars, psVars>>

\* line 267 (237): the while loop ends, the next step begins
WhileEnd ==
    /\ pc = "while"
    /\ ~beyond_prefetch(futures, config.prefetch)
    /\ step' = step + 1
    /\ pc' = "step"
    /\ UNCHANGED <<call, _dataset, epoch, step_stop, futures, awaiting, idx,
                   work, executor, yielded, overtook>>
    /\ UNCHANGED <<envVars, objVars, gsVars, psVars>>

\* a result() that hands over whatever the unit left
result_never_raises(r) == FALSE

\* lines 268 and 271 (238, 241): result() raises the exception the unit
\* ended with
result_raises(r) == ~r.ok

\* line 268 (238): result() returns the batch, which is yielded, or raises
Result ==
    /\ pc = "result"
    /\ work[awaiting].done
    /\ IF ~result_raises(work[awaiting].result)
       THEN /\ yielded' = Append(yielded, awaiting)
            /\ pc' = "yield"
            /\ UNCHANGED executor
       ELSE /\ pc' = "raised"
            /\ executor' = with_exit(executor)
            /\ UNCHANGED yielded
    /\ UNCHANGED <<call, _dataset, epoch, step, step_stop, futures, awaiting,
                   idx, work, overtook>>
    /\ UNCHANGED <<envVars, objVars, gsVars, psVars>>

\* next() at the yield of the while loop
Resume ==
    /\ pc = "yield"
    /\ pc' = "while"
    /\ awaiting' = 0
    /\ UNCHANGED <<call, _dataset, epoch, step, step_stop, futures, idx, work,
                   executor, yielded, overtook>>
    /\ UNCHANGED <<envVars, objVars, gsVars, psVars>>

\* line 270 (240): the next future of "for future in futures"
Drain ==
    /\ pc = "drain"
    /\ idx <= Len(futures)
    /\ awaiting' = futures[idx]
    /\ pc' = "dresult"
    /\ UNCHANGED <<call, _dataset, epoch, step, step_stop, futures, idx, work,
                   executor, yielded, overtook>>
    /\ UNCHANGED <<envVars, objVars, gsVars, psVars>>

\* line 271 (241): result() returns the batch, which is yielded, or raises
DrainResult ==
    /\ pc = "dresult"
    /\ work[awaiting].done
    /\ IF ~result_raises(work[awaiting].result)
       THEN /\ yielded' = Append(yielded, awaiting)
            /\ pc' = "dyield"
            /\ UNCHANGED executor
       ELSE /\ pc' = "raised"
            /\ executor' = with_exit(executor)
            /\ UNCHANGED yielded
    /\ UNCHANGED <<call, _dataset, epoch, step, step_stop, futures, awaiting,
                   idx, work, overtook>>
    /\ UNCHANGED <<envVars, objVars, gsVars, psVars>>

\* next() at the yield of the final loop
DrainResume ==
    /\ pc = "dyield"
    /\ pc' = "drain"
    /\ idx' = idx + 1
    /\ awaiting' = 0
    /\ UNCHANGED <<call, _dataset, epoch, step, step_stop, futures, work,
                   executor, yielded, overtook>>
    /\ UNCHANGED <<envVars, objVars, gsVars, psVars>>

\* lines 270-271 (240-241): the final loop is exhausted, the with block is left
Finish ==
    /\ pc = "drain"
    /\ idx > Len(futures)
    /\ pc' = "done"
    /\ executor' = with_exit(executor)
    /\ UNCHANGED <<call, _dataset, epoch, step, step_stop, futures, awaiting,
                   idx, work, yielded, overtook>>
    /\ UNCHANGED <<envVars, objVars, gsVars, psVars>>

\* the pool completes a submitted unit, in any order (lines 264, 234: the unit
\* is extract_batch or extract_batch_packed of the window)
Complete ==
    \E id \in 1..Len(work) :
        /\ ~work[id].done
        /\ \E r \in (IF config.packed
                     THEN extract_batch_packed(work[id].batch_set, corrupt)
                     ELSE extract_batch(work[id].batch_set, config.pp_duration,
                                        durations, corrupt)) :
               work' = [work EXCEPT ![id] = [@ EXCEPT !.done = TRUE, !.result = r]]
        /\ overtook' = (overtook \/ \E j \in 1..(id - 1) : ~work[j].done)
        /\ UNCHANGED <<pc, call, _dataset, epoch, step, step_stop, futures,
                       awaiting, idx, executor, yielded>>
        /\ UNCHANGED <<envVars, objVars, gsVars, psVars>>

\* line 248 (224): shutdown(wait=True) returns once every submitted unit has
\* completed
Shutdown ==
    /\ executor = "joining"
    /\ \A id \in 1..Len(work) : work[id].done
    /\ executor' = "shutdown"
    /\ UNCHANGED <<pc, call, _dataset, epoch, step, step_stop, futures,
                   awaiting, idx, work, yielded, overtook>>
    /\ UNCHANGED <<envVars, objVars, gsVars, psVars>>

NextGen ==
    \/ Begin \/ EpochBegin \/ EpochsEnd \/ Submit \/ StepsEnd \/ Pop
    \/ WhileEnd \/ Result \/ Resume \/ Drain \/ DrainResult \/ DrainResume
    \/ Finish \/ Complete \/ Shutdown

\* the consumer closes the generator (close(), or the generator is collected)
\* while it is suspended at a yield: GeneratorExit is raised there and the
\* with block is left; a generator that was not started just ends
Close ==
    /\ pc \in {"start", "yield", "dyield"}
    /\ pc' = "closed"
    /\ executor' = with_exit(executor)
    /\ UNCHANGED <<call, _dataset, epoch, step, step_stop, futures, awaiting,
                   idx, work, yielded, overtook>>
    /\ UNCHANGED <<envVars, objVars, gsVars, psVars>>

(***************************************************************************)
(* DataBase.__init__ (lines 15-33) and the two entry points (281-287).     *)
(***************************************************************************)
\* no group_shuffle call is being run statement by statement
NoFrame == [dataset |-> <<>>, upper |-> 0, batch_groups |-> 0, it |-> 0,
            i |-> 0, j |-> 0, k |-> 0, ids |-> <<>>, counts |-> <<>>,
            before |-> <<>>, read |-> {}, round |-> 0]

NoCall == [dataset |-> <<>>, epoch_steps |-> 0, num_epochs |-> 0, start |-> 0,
           shuffle |-> FALSE, attr |-> "none"]

\* line 33: self.get_files(), the whole partitioning
GetFiles ==
    /\ status = "new"
    /\ \E perm \in ShuffleChoices(Len(listing), config.shuffle /\ ~config.packed) :
           LET r == get_files(self, listing, config, perm)
           IN  /\ self' = r.self
               /\ status' = r.status
               /\ data_list' = r.data_list
    /\ UNCHANGED <<envVars, genVars, gsVars, psVars>>

\* lines 281-283: gen_main(start) on the constructed object
GenMain ==
    /\ status = "ok"
    /\ pc = "idle"
    /\ \E start \in 0..(self.epoch_steps * self.num_epochs) :
           call' = [dataset |-> self.main_set, epoch_steps |-> self.epoch_steps,
                    num_epochs |-> self.num_epochs, start |-> start,
                    shuffle |-> config.shuffle, attr |-> "main_set"]
    /\ pc' = "start"
    /\ UNCHANGED <<_dataset, epoch, step, step_stop, futures, awaiting, idx,
                   work, executor, yielded, overtook>>
    /\ UNCHANGED <<envVars, objVars, gsVars, psVars>>

\* lines 285-287: gen_val(start); without a val_size the object has no val_set
GenVal ==
    /\ status = "ok"
    /\ pc = "idle"
    /\ self.val_set /= NoList
    /\ \E start \in 0..self.val_steps :
           call' = [dataset |-> self.val_set, epoch_steps |-> self.val_steps,
                    num_epochs |-> 1, start |-> start, shuffle |-> FALSE,
                    attr |-> "val_set"]
    /\ pc' = "start"
    /\ UNCHANGED <<_dataset, epoch, step, step_stop, futures, awaiting, idx,
                   work, executor, yielded, overtook>>
    /\ UNCHANGED <<envVars, objVars, gsVars, psVars>>

NextFiles == GetFiles \/ GenMain \/ GenVal

\* a stand-alone call group_shuffle(dataset, batch_size, shuffle, group_size)
GroupShuffleCall ==
    /\ gs_pc = "call"
    /\ \E perm \in ShuffleChoices(Len(gs_args.dataset), gs_args.shuffle) :
           LET g == group_shuffle(gs_args.dataset, gs_args.batch_size,
                                  gs_args.group_size, perm)
           IN  /\ gs_mid' = group_truncate(gs_args.dataset, gs_args.batch_size, perm)
               /\ gs_out' = g.dataset
               /\ gs_pc' = IF g.failed THEN "AssertionError" ELSE "returned"
    /\ UNCHANGED <<gs_args, gs_frame>>
    /\ UNCHANGED <<envVars, objVars, genVars, psVars>>

NextShuffle == GroupShuffleCall

(***************************************************************************)
(* DataBase.group_shuffle run statement by statement.  gs_frame holds its  *)
(* locals under their names; dataset is the list the call changes in       *)
(* place, it the next value of "for i in range(0, upper, batch_size)".     *)
(* Three fields record the run: before is the list as the pass of the      *)
(* current window found it, read the positions that pass has read, round   *)
(* which application of group_shuffle this is (the second one takes the    *)
(* list the first one returned).  gs_pc is                                 *)
(*   "call"     called, nothing run                                        *)
(*   "pop"      at the test of "while len(dataset) % batch_size > 0"       *)
(*   "window"   at the head of the loop over windows                       *)
(*   "scan"     at the head of "for k in range(j, upper)"                  *)
(*   "returned" or "AssertionError"                                        *)
(***************************************************************************)
\* a truncation that is left out
popping_never(dataset, batch_size) == FALSE

\* line 74: the test of the while loop
popping(dataset, batch_size) == Len(dataset) % batch_size > 0

\* an identifier taken from the label
id_of_label(d) == d[2]

\* lines 82 and 86: d[0], the first component of the entry
id_of(d) == d[1]

\* a scan that begins at the window's first entry
scan_start_window(i, j) == i

\* line 84: range(j, upper) begins at j
scan_start(i, j) == j

\* a scan that ends with the window
scan_stop_window(i, upper, batch_size) == Min(upper, i + batch_size)

\* line 84: range(j, upper) ends with the list
scan_stop(i, upper, batch_size) == upper

\* an exchange that overwrites dataset[k] before it is saved
swap_overwrite(dataset, k, j) == [dataset EXCEPT ![k + 1] = dataset[j + 1]]

\* lines 85, 91 and 92: data = dataset[k]; dataset[k] = dataset[j]; dataset[j] = data
swap(dataset, k, j) ==
    [dataset EXCEPT ![k + 1] = dataset[j + 1], ![j + 1] = dataset[k + 1]]

\* lines 71-72
GsShuffle ==
    /\ gs_pc = "call"
    /\ LET dataset == IF gs_frame.round = 2 THEN gs_out ELSE gs_args.dataset
       IN  \E perm \in ShuffleChoices(Len(dataset), gs_args.shuffle) :
               gs_frame' = [gs_frame EXCEPT !.dataset = Permute(dataset, perm)]
    /\ gs_pc' = "pop"
    /\ UNCHANGED <<gs_args, gs_mid, gs_out>>
    /\ UNCHANGED <<envVars, objVars, genVars, psVars>>

\* lines 74-75: dataset.pop()
GsPop ==
    /\ gs_pc = "pop"
    /\ popping(gs_frame.dataset, gs_args.batch_size)
    /\ gs_frame' = [gs_frame EXCEPT
                       !.dataset = SubSeq(@, 1, Len(@) - 1)]
    /\ UNCHANGED <<gs_pc, gs_args, gs_mid, gs_out>>
    /\ UNCHANGED <<envVars, objVars, genVars, psVars>>

\* lines 74 and 76-78: the while loop ends; upper, the assertion, batch_groups
GsAssert ==
    /\ gs_pc = "pop"
    /\ ~popping(gs_frame.dataset, gs_args.batch_size)
    /\ gs_mid' = IF gs_frame.round = 1 THEN gs_frame.dataset ELSE gs_mid
    /\ IF gs_args.batch_size % gs_args.group_size = 0
       THEN /\ gs_pc' = "window"
            /\ gs_frame' = [gs_frame EXCEPT
                   !.upper = Len(gs_frame.dataset),
                   !.batch_groups = gs_args.batch_size \div gs_args.group_size,
                   !.it = 0]
       ELSE /\ gs_pc' = "AssertionError"
            /\ gs_frame' = [gs_frame EXCEPT !.upper = Len(gs_frame.dataset)]
    /\ UNCHANGED <<gs_args, gs_out>>
    /\ UNCHANGED <<envVars, objVars, genVars, psVars>>

\* lines 80-84: the next window; j, ids, counts and the start of the scan
GsWindow ==
    /\ gs_pc = "window"
    /\ gs_frame.it < gs_frame.upper
    /\ LET i == gs_frame.it
           j == i + gs_frame.batch_groups
           ids == [n \in 1..(Min(j, Len(gs_frame.dataset)) - i) |->
                      id_of(gs_frame.dataset[i + n])]
       IN  gs_frame' = [gs_frame EXCEPT
               !.i = i, !.it = i + gs_args.batch_size, !.j = j, !.ids = ids,
               !.counts = [x \in Range(ids) |-> gs_args.group_size - 1],
               !.k = scan_start(i, j),
               !.before = gs_frame.dataset, !.read = {}]
    /\ gs_pc' = "scan"
    /\ UNCHANGED <<gs_args, gs_mid, gs_out>>
    /\ UNCHANGED <<envVars, objVars, genVars, psVars>>

\* lines 85-95: one turn of the loop over k
GsScan ==
    /\ gs_pc = "scan"
    /\ gs_frame.k < scan_stop(gs_frame.i, gs_frame.upper, gs_args.batch_size)
    /\ LET k == gs_frame.k
           j == gs_frame.j
           id_ == id_of(gs_frame.dataset[k + 1])
           counts == gs_frame.counts
       IN  IF id_ \in Range(gs_frame.ids) /\ counts[id_] > 0
           THEN /\ gs_frame' = [gs_frame EXCEPT
                       !.counts = [counts EXCEPT ![id_] = @ - 1],
                       !.ids = IF counts[id_] - 1 <= 0
                               THEN ListRemove(gs_frame.ids, id_) ELSE @,
                       !.dataset = swap(@, k, j),
                       !.j = j + 1,
                       !.k = IF j + 1 >= gs_frame.i + gs_args.batch_size
                             THEN k ELSE k + 1,
                       !.read = @ \cup {k}]
                /\ gs_pc' = IF j + 1 >= gs_frame.i + gs_args.batch_size
                            THEN "window" ELSE "scan"
           ELSE /\ gs_frame' = [gs_frame EXCEPT !.k = k + 1, !.read = @ \cup {k}]
                /\ gs_pc' = "scan"
    /\ UNCHANGED <<gs_args, gs_mid, gs_out>>
    /\ UNCHANGED <<envVars, objVars, genVars, psVars>>

\* line 84: the loop over k is exhausted
GsScanEnd ==
    /\ gs_pc = "scan"
    /\ ~(gs_frame.k < scan_stop(gs_frame.i, gs_frame.upper, gs_args.batch_size))
    /\ gs_pc' = "window"
    /\ UNCHANGED <<gs_args, gs_mid, gs_out, gs_frame>>
    /\ UNCHANGED <<envVars, objVars, genVars, psVars>>

\* line 80: the loop over windows is exhausted, group_shuffle returns
GsReturn ==
    /\ gs_pc = "window"
    /\ ~(gs_frame.it < gs_frame.upper)
    /\ gs_pc' = "returned"
    /\ gs_out' = IF gs_frame.round = 1 THEN gs_frame.dataset ELSE gs_out
    /\ UNCHANGED <<gs_args, gs_mid, gs_frame>>
    /\ UNCHANGED <<envVars, objVars, genVars, psVars>>

\* lines 257-258: with shuffle disabled, group_shuffle once more with the same
\* batch_size and group_size on a copy of the list the first call returned
\* (gs_out; gs_mid stays the first call's list after its truncation)
GsAgain ==
    /\ gs_pc = "returned"
    /\ gs_frame.round = 1
    /\ ~gs_args.shuffle
    /\ gs_frame' = [NoFrame EXCEPT !.round = 2]
    /\ gs_pc' = "call"
    /\ UNCHANGED <<gs_args, gs_mid, gs_out>>
    /\ UNCHANGED <<envVars, objVars, genVars, psVars>>

NextGroup ==
    \/ GsShuffle \/ GsPop \/ GsAssert \/ GsWindow \/ GsScan \/ GsScanEnd
    \/ GsReturn \/ GsAgain

(***************************************************************************)
(* DataBase.process_sample run statement by statement on a decoded signal, *)
(* amplitudes included.  An amplitude is a fraction <<n, d>>, d > 0.       *)
(***************************************************************************)
Abs(x) == IF x < 0 THEN -x ELSE x

RatLess(a, b) == a[1] * b[2] < b[1] * a[2]

RatMul(a, b) == <<a[1] * b[1], a[2] * b[2]>>

RatAbs(a) == <<Abs(a[1]), a[2]>>

\* line 168: 1e-6
Epsilon == <<1, 1000000>>

\* line 164: np.max(data), the largest sample (signed)
np_max(data) == CHOOSE m \in Range(data) : \A x \in Range(data) : ~RatLess(m, x)

\* lines 317-319: values 0.1 ** np.random.uniform(0, amplitude) takes
Gains == {<<1, 1>>, <<1, 2>>}

\* no process_sample call is being run statement by statement
NoSample == [pc |-> "idle",
             config |-> [pp_duration |-> 0, pp_smooth |-> 0, pp_noise |-> 0,
                         pp_amplitude |-> 0],
             decoded |-> <<>>, data |-> <<>>, audio_max |-> <<0, 1>>,
             samples |-> 0, slice_samples |-> 0]

SampleIdle == ps_frame = NoSample

\* lines 164-166
PsMax ==
    /\ ps_frame.pc = "loaded"
    /\ ps_frame' = [ps_frame EXCEPT
           !.audio_max = np_max(ps_frame.data),
           !.samples = Len(ps_frame.data),
           !.slice_samples = IF ps_frame.config.pp_duration = 0 THEN 0
                             ELSE SliceSamples,
           !.pc = "normalize"]
    /\ UNCHANGED <<envVars, objVars, genVars, gsVars>>

\* lines 168-170: data *= 1 / audio_max when audio_max > 1e-6
PsNormalize ==
    /\ ps_frame.pc = "normalize"
    /\ IF RatLess(Epsilon, ps_frame.audio_max)
       THEN LET norm_factor == <<ps_frame.audio_max[2], ps_frame.audio_max[1]>>
            IN  ps_frame' = [ps_frame EXCEPT
                    !.data = [i \in 1..Len(ps_frame.data) |->
                                 RatMul(ps_frame.data[i], norm_factor)],
                    !.pc = "pad"]
       ELSE ps_frame' = [ps_frame EXCEPT !.pc = "pad"]
    /\ UNCHANGED <<envVars, objVars, genVars, gsVars>>

\* lines 172-173: zero padding up to slice_samples
PsPad ==
    /\ ps_frame.pc = "pad"
    /\ IF ps_frame.samples < ps_frame.slice_samples
       THEN ps_frame' = [ps_frame EXCEPT
                !.data = ps_frame.data \o
                         [i \in 1..(ps_frame.slice_samples - ps_frame.samples) |->
                             <<0, 1>>],
                !.pc = "process"]
       ELSE ps_frame' = [ps_frame EXCEPT !.pc = "process"]
    /\ UNCHANGED <<envVars, objVars, genVars, gsVars>>

\* lines 291-319, DataPP.process with pp_smooth = pp_noise = 0: active_prob(0)
\* is uniform(0, 1) < 0, never true, so neither the smoothing nor the noise
\* loop runs; the random amplitude is applied when pp_amplitude / 10 > 0
process(data, cfg, gain) ==
    IF cfg.pp_amplitude > 0
    THEN [i \in 1..Len(data) |-> RatMul(data[i], gain)]
    ELSE data

\* lines 175-177: data = DataPP.process(data, config); return data, label
PsProcess ==
    /\ ps_frame.pc = "process"
    /\ \E gain \in Gains :
           ps_frame' = [ps_frame EXCEPT
               !.data = process(ps_frame.data, ps_frame.config, gain),
               !.pc = "returned"]
    /\ UNCHANGED <<envVars, objVars, genVars, gsVars>>

NextSample == PsMax \/ PsNormalize \/ PsPad \/ PsProcess

(***************************************************************************)
(* Initial states.                                                         *)
(***************************************************************************)
\* count entries numbered from first: (file, label) pairs, or archive paths
Entries(first, count, packed) ==
    [i \in 1..count |-> IF packed THEN <<first + i - 1>>
                        ELSE <<first + i - 1, (first + i - 1) % 2>>]

GenIdle ==
    /\ pc = "idle"
    /\ call = NoCall
    /\ _dataset = <<>>
    /\ epoch = 0
    /\ step = 0
    /\ step_stop = 0
    /\ futures = <<>>
    /\ awaiting = 0
    /\ idx = 0
    /\ work = <<>>
    /\ executor = "none"
    /\ yielded = <<>>
    /\ overtook = FALSE

ShuffleIdle ==
    /\ gs_pc = "idle"
    /\ gs_args = [dataset |-> <<>>, batch_size |-> 1, shuffle |-> FALSE,
                  group_size |-> 1]
    /\ gs_mid = <<>>
    /\ gs_out = <<>>
    /\ gs_frame = NoFrame

\* a fresh object about to run get_files; num_epochs or max_steps is configured
FileConfigs ==
    {c \in [packed : BOOLEAN, batch_size : BatchSizes, group_size : GroupSizes,
            prefetch : {1}, shuffle : BOOLEAN, pp_duration : {-1},
            val_size : {None} \cup 0..(MaxFiles + 1),
            max_steps : {None} \cup 0..MaxSteps,
            num_epochs : {None} \cup 1..MaxEpochs] :
        c.max_steps /= None \/ c.num_epochs /= None}

InitFiles ==
    /\ config \in FileConfigs
    /\ \E n \in 0..MaxFiles : listing = Entries(1, n, config.packed)
    /\ durations = [r \in 1..Len(listing) |-> SliceSamples]
    /\ corrupt = {}
    /\ self = NewSelf(config)
    /\ status = "new"
    /\ data_list = NoList
    /\ GenIdle
    /\ ShuffleIdle
    /\ SampleIdle

SpecFiles == InitFiles /\ [][NextFiles]_vars

\* a stand-alone group_shuffle call on a list of entries with distinct files
LabelledLists ==
    UNION {{[i \in 1..n |-> <<i, l[i]>>] : l \in [1..n -> Labels]} : n \in 0..MaxFiles}

InitShuffle ==
    /\ gs_pc = "call"
    /\ gs_args \in [dataset : LabelledLists, batch_size : BatchSizes,
                    shuffle : BOOLEAN, group_size : GroupSizes]
    /\ gs_mid = <<>>
    /\ gs_out = <<>>
    /\ gs_frame = NoFrame
    /\ config = [packed |-> FALSE, batch_size |-> gs_args.batch_size,
                 group_size |-> gs_args.group_size, prefetch |-> 1,
                 shuffle |-> gs_args.shuffle, pp_duration |-> -1,
                 val_size |-> None, max_steps |-> None, num_epochs |-> 1]
    /\ listing = <<>>
    /\ durations = <<>>
    /\ corrupt = {}
    /\ self = NewSelf(config)
    /\ status = "new"
    /\ data_list = NoList
    /\ GenIdle
    /\ SampleIdle

SpecShuffle == InitShuffle /\ [][NextShuffle]_vars

\* group_shuffle run statement by statement on any list of (reference, label)
\* entries, a reference occurring once or more often, and then once more on
\* the list it returned
GroupRefs == {1, 2}
GroupBatchSizes == {1, 2, 3, 4}

\* lists of entries whose references are distinct, as file discovery builds them
DistinctLists(n) ==
    UNION {{[i \in 1..m |-> <<i, l[i]>>] : l \in [1..m -> Labels]} : m \in 0..n}

GroupLists(n) ==
    UNION {[1..m -> GroupRefs \X Labels] : m \in 0..n} \cup DistinctLists(n)

InitGroup ==
    /\ gs_pc = "call"
    /\ \E shuffle \in BOOLEAN :
           gs_args \in [dataset : GroupLists(IF shuffle THEN MaxShuffled
                                             ELSE MaxGroupList),
                        batch_size : GroupBatchSizes, shuffle : {shuffle},
                        group_size : GroupSizes]
    /\ gs_mid = <<>>
    /\ gs_out = <<>>
    /\ gs_frame = [NoFrame EXCEPT !.round = 1]
    /\ config = [packed |-> FALSE, batch_size |-> gs_args.batch_size,
                 group_size |-> gs_args.group_size, prefetch |-> 1,
                 shuffle |-> gs_args.shuffle, pp_duration |-> -1,
                 val_size |-> None, max_steps |-> None, num_epochs |-> 1]
    /\ listing = <<>>
    /\ durations = <<>>
    /\ corrupt = {}
    /\ self = NewSelf(config)
    /\ status = "new"
    /\ data_list = NoList
    /\ GenIdle
    /\ SampleIdle

SpecGroup == InitGroup /\ [][NextGroup]_vars

\* process_sample on a decoded signal: full-scale fractions of either sign and
\* samples of magnitude 1e-7; with pp_duration /= 0 librosa.load returns at
\* most a slice
Amplitudes ==
    {<<k, MaxAmplitude>> : k \in (-MaxAmplitude)..MaxAmplitude}
        \cup {<<1, 10000000>>, <<-1, 10000000>>}

InitSample ==
    /\ \E pp_duration \in {-1, 0, 1}, pp_amplitude \in {0, 10} :
       \E n \in 1..(IF pp_duration = 0 THEN MaxDuration ELSE SliceSamples) :
       \E signal \in [1..n -> Amplitudes] :
           ps_frame = [NoSample EXCEPT
               !.pc = "loaded",
               !.config = [pp_duration |-> pp_duration, pp_smooth |-> 0,
                           pp_noise |-> 0, pp_amplitude |-> pp_amplitude],
               !.decoded = signal,
               !.data = signal]
    /\ config = [packed |-> FALSE, batch_size |-> 1, group_size |-> 1,
                 prefetch |-> 1, shuffle |-> FALSE,
                 pp_duration |-> ps_frame.config.pp_duration,
                 val_size |-> None, max_steps |-> None, num_epochs |-> 1]
    /\ listing = <<>>
    /\ durations = <<>>
    /\ corrupt = {}
    /\ self = NewSelf(config)
    /\ status = "new"
    /\ data_list = NoList
    /\ GenIdle
    /\ ShuffleIdle

SpecSample == InitSample /\ [][NextSample]_vars

(***************************************************************************)
(* A generation call on a constructed object.  gen_main passes main_set,   *)
(* epoch_steps, num_epochs and the configured shuffle; gen_val passes      *)
(* val_set, val_steps, 1 and False.  Either list holds epoch_steps windows *)
(* of batch_size entries, or epoch_steps archives.  The object is the one  *)
(* get_files leaves for a listing of the validation windows (when kind is  *)
(* "val") followed by the main set.                                        *)
(***************************************************************************)
PerStep(cfg) == IF cfg.packed THEN 1 ELSE cfg.batch_size

\* the longest listing: MaxFiles entries and one more validation window
MaxListing == MaxFiles + CHOOSE b \in BatchSizes : \A c \in BatchSizes : c <= b

GenConfigs(shuffles, pps, prefetches, epochs) ==
    {c \in [packed : BOOLEAN, batch_size : BatchSizes, group_size : GroupSizes,
            prefetch : prefetches, shuffle : shuffles, pp_duration : pps,
            val_size : {None} \cup 0..MaxListing, max_steps : {None},
            num_epochs : epochs] :
        /\ c.batch_size % c.group_size = 0
        /\ c.packed => /\ c.batch_size = 1
                       /\ c.group_size = 1
                       /\ ~c.shuffle
                       /\ c.pp_duration = -1}

MainObject(cfg, list, epoch_steps) ==
    [val_size |-> None, val_steps |-> None, val_set |-> NoList,
     epoch_steps |-> epoch_steps, epoch_size |-> epoch_steps * cfg.batch_size,
     max_steps |-> epoch_steps * cfg.num_epochs, num_epochs |-> cfg.num_epochs,
     main_set |-> list]

ValObject(cfg, val, main) ==
    [val_size |-> (Len(val) \div PerStep(cfg)) * cfg.batch_size,
     val_steps |-> Len(val) \div PerStep(cfg), val_set |-> val,
     epoch_steps |-> 1, epoch_size |-> cfg.batch_size,
     max_steps |-> cfg.num_epochs, num_epochs |-> cfg.num_epochs,
     main_set |-> main]

\* durs: the lengths of the files by position; bads: the unreadable files
GenCalled(cfgs, durs, bads) ==
    /\ config \in cfgs
    /\ \E kind \in {"main", "val"}, epoch_steps \in 0..MaxEpochSteps :
           LET list == Entries(1, epoch_steps * PerStep(config), config.packed)
               rest == Entries(Len(list) + 1, PerStep(config), config.packed)
           IN  /\ Len(list) <= MaxFiles
               /\ kind = "main" => epoch_steps >= 1 /\ config.val_size = None
               /\ kind = "val" =>
                      config.val_size = epoch_steps * config.batch_size
               /\ kind = "val" => config.num_epochs = 1 /\ ~config.shuffle
               /\ listing = IF kind = "main" THEN list ELSE list \o rest
               /\ self = IF kind = "main" THEN MainObject(config, list, epoch_steps)
                         ELSE ValObject(config, list, rest)
               /\ \E start \in 0..(epoch_steps * config.num_epochs) :
                      call = [dataset |-> list, epoch_steps |-> epoch_steps,
                              num_epochs |-> config.num_epochs, start |-> start,
                              shuffle |-> config.shuffle,
                              attr |-> IF kind = "main" THEN "main_set"
                                       ELSE "val_set"]
    /\ data_list = listing
    /\ status = "ok"
    /\ durations \in {[r \in 1..Len(listing) |-> d[r]] : d \in durs}
    /\ corrupt \in {b \cap 1..Len(call.dataset) : b \in bads}
    /\ pc = "start"
    /\ _dataset = <<>>
    /\ epoch = 0
    /\ step = 0
    /\ step_stop = 0
    /\ futures = <<>>
    /\ awaiting = 0
    /\ idx = 0
    /\ work = <<>>
    /\ executor = "none"
    /\ yielded = <<>>
    /\ overtook = FALSE
    /\ ShuffleIdle
    /\ SampleIdle

\* files of one length, none or one of them corrupt
SliceDurations == {[r \in 1..MaxListing |-> SliceSamples]}
OneCorrupt == {{}} \cup {{r} : r \in 1..MaxFiles}

\* the scheduler: any prefetch depth, any start, some unit failing or none
Init ==
    GenCalled(GenConfigs({FALSE}, {-1}, 1..MaxPrefetch, 1..MaxEpochs),
              SliceDurations, OneCorrupt)

Spec == Init /\ [][NextGen]_vars

\* the consumer keeps asking for batches and the pool keeps working
Fairness == WF_vars(NextGen)

FairSpec == Init /\ [][NextGen]_vars /\ Fairness

\* the windows: files of several lengths, every pp_duration mode, reshuffling
DurationProfiles ==
    {[r \in 1..MaxListing |-> d] : d \in 1..MaxDuration}
        \cup {[r \in 1..MaxListing |-> 1 + ((r + k) % MaxDuration)] : k \in 0..1}
NoneCorrupt == {{}}

InitEpoch ==
    GenCalled({c \in GenConfigs(BOOLEAN, {-1, 0, 1}, {2}, {1, 2}) : ~c.packed},
              DurationProfiles, NoneCorrupt)

SpecEpoch == InitEpoch /\ [][NextGen]_vars

(***************************************************************************)
(* A constructed object on which the consumer makes generation calls, one  *)
(* after the other, closing a generator or running it to its end.          *)
(***************************************************************************)
\* the fields get_files leaves for val_steps validation windows (None without
\* a val_size) and epoch_steps main windows
BuiltObject(cfg, val_steps, val, main, epoch_steps) ==
    [val_size |-> IF val_steps = None THEN None ELSE val_steps * cfg.batch_size,
     val_steps |-> val_steps,
     val_set |-> IF val_steps = None THEN NoList ELSE val,
     epoch_steps |-> epoch_steps, epoch_size |-> epoch_steps * cfg.batch_size,
     max_steps |-> epoch_steps * cfg.num_epochs, num_epochs |-> cfg.num_epochs,
     main_set |-> main]

\* the consumer lets go of a generator that has ended; the object is as it was
\* before gen_main or gen_val
Release ==
    /\ pc \in {"done", "raised", "closed"}
    /\ executor \in {"none", "shutdown"}
    /\ pc' = "idle"
    /\ call' = NoCall
    /\ _dataset' = <<>>
    /\ epoch' = 0
    /\ step' = 0
    /\ step_stop' = 0
    /\ futures' = <<>>
    /\ awaiting' = 0
    /\ idx' = 0
    /\ work' = <<>>
    /\ executor' = "none"
    /\ yielded' = <<>>
    /\ overtook' = FALSE
    /\ UNCHANGED <<envVars, objVars, gsVars, psVars>>

InitCalls ==
    /\ config \in GenConfigs(BOOLEAN, {-1}, {1, 2}, 1..MaxEpochs)
    /\ \E val_steps \in {None, 0, 1},
          epoch_steps \in {s \in 1..MaxEpochSteps :
                              s * config.num_epochs <= MaxSteps} :
           LET val == Entries(1, Max(val_steps, 0) * PerStep(config), config.packed)
               main == Entries(Len(val) + 1, epoch_steps * PerStep(config),
                               config.packed)
           IN  /\ config.val_size =
                      IF val_steps = None THEN None
                      ELSE val_steps * config.batch_size
               /\ listing = val \o main
               /\ self = BuiltObject(config, val_steps, val, main, epoch_steps)
    /\ data_list = listing
    /\ status = "ok"
    /\ durations = [r \in 1..Len(listing) |-> SliceSamples]
    /\ corrupt \in {b \cap 1..Len(listing) : b \in OneCorrupt}
    /\ GenIdle
    /\ ShuffleIdle
    /\ SampleIdle

NextCalls == GenMain \/ GenVal \/ NextGen \/ Close \/ Release

SpecCalls == InitCalls /\ [][NextCalls]_vars

\* the pool's workers finish the units they were given, and shutdown returns
FairPool == WF_vars(Complete) /\ WF_vars(Shutdown)

FairCalls == InitCalls /\ [][NextCalls]_vars /\ FairPool

(***************************************************************************)
(* Properties of the batch generator.                                      *)
(***************************************************************************)
IsPrefix(s, t) == Len(s) <= Len(t) /\ SubSeq(t, 1, Len(s)) = s

\* the global steps of the submitted units and of the yielded batches
SubmittedSteps == [i \in 1..Len(work) |-> work[i].gstep]
YieldedSteps == [i \in 1..Len(yielded) |-> work[yielded[i]].gstep]

\* the global steps start .. epoch_steps * num_epochs - 1
ExpectedSteps ==
    [i \in 1..(call.epoch_steps * call.num_epochs - call.start) |->
        call.start + i - 1]

\* C1: whatever the order in which the pool completes the units, the i-th
\* batch yielded is the batch of the i-th unit submitted, and the global
\* steps of the yielded batches increase.
C1_YieldedInSubmissionOrder ==
    /\ \A i \in 1..Len(yielded) : yielded[i] = i
    /\ \A i, j \in 1..Len(yielded) :
           i < j => work[yielded[i]].gstep < work[yielded[j]].gstep

\* a later unit completed before an earlier one, and batches were yielded
C1_Witness ==
    /\ overtook
    /\ config.prefetch >= 2
    /\ Len(yielded) >= 3

\* C2: the futures submitted and not yet popped never exceed the prefetch
\* depth.
C2_InFlightBounded == Len(futures) <= config.prefetch

\* the list is full in a later epoch, and it still holds futures at the drain
C2_WitnessFull ==
    /\ config.prefetch >= 2
    /\ epoch >= 1
    /\ Len(futures) = config.prefetch

\* C3: for epoch_steps >= 1 the units submitted and the batches yielded are,
\* in order, those of the global steps start, start + 1, ...; the call ends,
\* and unless a unit failed it ends having submitted and yielded every step
\* up to epoch_steps * num_epochs - 1, the futures left being drained.
UnitFailed == \E id \in 1..Len(work) : work[id].done /\ ~work[id].result.ok

C3_AllStepsYielded ==
    /\ [](call.epoch_steps >= 1 =>
             /\ IsPrefix(SubmittedSteps, ExpectedSteps)
             /\ IsPrefix(YieldedSteps, ExpectedSteps))
    /\ <>[](\/ call.epoch_steps = 0
            \/ pc = "raised" /\ UnitFailed
            \/ /\ pc = "done"
               /\ SubmittedSteps = ExpectedSteps
               /\ YieldedSteps = ExpectedSteps
               /\ Len(yielded) =
                      call.epoch_steps * call.num_epochs - call.start)

\* a resumed call over two epochs ended, part of its batches yielded by the
\* final loop
C3_Witness ==
    /\ pc = "done"
    /\ call.start > 0
    /\ call.num_epochs >= 2
    /\ call.start < call.epoch_steps
    /\ Len(futures) >= 2
    /\ Len(yielded) = call.epoch_steps * call.num_epochs - call.start

\* the windows of the batches yielded for epoch 0, in order
RECURSIVE EpochZero(_)
EpochZero(ids) ==
    IF ids = <<>> THEN <<>>
    ELSE (IF work[Head(ids)].epoch = 0 THEN <<work[Head(ids)].batch_set>>
          ELSE <<>>) \o EpochZero(Tail(ids))

\* dataset[s * batch_size : (s + 1) * batch_size] for every step s of an epoch
PlainWindows ==
    [s \in 1..call.epoch_steps |->
        Slice(call.dataset, (s - 1) * config.batch_size, s * config.batch_size)]

\* C4: a call resumed at start = k < epoch_steps yields for epoch 0 the windows
\* dataset[s * batch_size : (s + 1) * batch_size] of the steps s = k, k + 1,
\* ..., in order: those of the call with start = 0 (the case k = 0) without
\* the first k.
C4_ResumeSameWindows ==
    call.start < call.epoch_steps =>
        /\ IsPrefix(EpochZero(yielded), SliceFrom(PlainWindows, call.start))
        /\ (pc = "done" =>
                EpochZero(yielded) = SliceFrom(PlainWindows, call.start))

\* a resumed call that shuffles ended; a window of its second epoch is not
\* the plain window of its step
C4_Witness ==
    /\ pc = "done"
    /\ call.shuffle
    /\ call.start > 0
    /\ call.start < call.epoch_steps
    /\ config.batch_size >= 2
    /\ \E i \in 1..Len(yielded) :
           /\ work[yielded[i]].epoch = 1
           /\ work[yielded[i]].batch_set \notin Range(PlainWindows)

\* C10: every batch yielded in unpacked mode has inputs of shape
\* [batch_size, 1, 1, signal_length] and labels of shape [batch_size], its
\* window holding batch_size entries.
C10_BatchShape ==
    \A i \in 1..Len(yielded) :
        LET unit == work[yielded[i]]
        IN  /\ Len(unit.batch_set) = config.batch_size
            /\ unit.result.ok
            /\ Len(unit.result.inputs) = 4
            /\ unit.result.inputs[1] = config.batch_size
            /\ unit.result.inputs[2] = 1
            /\ unit.result.inputs[3] = 1
            /\ unit.result.inputs[4] >= 1
            /\ unit.result.labels = <<config.batch_size>>

\* a batch of a reshuffled epoch, of files shorter and longer than the slice
C10_Witness ==
    /\ config.pp_duration = -1
    /\ config.batch_size = 2
    /\ call.shuffle
    /\ \E i \in 1..Len(yielded) :
           LET unit == work[yielded[i]]
           IN  /\ unit.epoch = 1
               /\ unit.batch_set \notin Range(PlainWindows)
               /\ durations[unit.batch_set[1][1]] < SliceSamples
               /\ durations[unit.batch_set[2][1]] > SliceSamples

\* a batch yielded with pp_duration = 0 and one with pp_duration > 0
C10_WitnessModes ==
    /\ config.pp_duration = 0
    /\ config.batch_size = 2
    /\ Len(yielded) >= 2

(***************************************************************************)
(* Properties of the partitioner.                                          *)
(***************************************************************************)
Refs(list) == {list[i][1] : i \in 1..Len(list)}
ValRefs == IF self.val_set = NoList THEN {} ELSE Refs(self.val_set)

\* C5 as claimed: in packed and in unpacked mode the lengths of main_set and
\* val_set are multiples of batch_size after get_files.
C5_Claimed ==
    status = "ok" =>
        /\ Len(self.main_set) % config.batch_size = 0
        /\ self.val_set /= NoList => Len(self.val_set) % config.batch_size = 0

\* C5: in unpacked mode the lengths of main_set and of val_set (assigned
\* exactly when a val_size is configured) are multiples of batch_size; in
\* packed mode every entry is one batch, main_set holds epoch_steps entries
\* and val_set holds val_steps = val_size // batch_size entries.
C5_WholeBatches ==
    status = "ok" =>
        /\ self.main_set /= NoList
        /\ (self.val_set = NoList) <=> (config.val_size = None)
        /\ ~config.packed =>
               /\ Len(self.main_set) % config.batch_size = 0
               /\ Len(self.main_set) = self.epoch_steps * config.batch_size
               /\ self.val_set /= NoList =>
                      /\ Len(self.val_set) % config.batch_size = 0
                      /\ Len(self.val_set) = self.val_size
        /\ config.packed =>
               /\ Len(self.main_set) = self.epoch_steps
               /\ self.val_set /= NoList =>
                      /\ Len(self.val_set) = self.val_steps
                      /\ self.val_steps = config.val_size \div config.batch_size

\* an unpacked split whose configured val_size is not a multiple of batch_size
C5_Witness ==
    /\ status = "ok"
    /\ ~config.packed
    /\ config.batch_size = 2
    /\ config.val_size = 3
    /\ Len(self.val_set) = 2
    /\ Len(self.main_set) = 2

\* C6: after partitioning main_set and val_set share no reference, and
\* together they hold the references of the list handed to the partitioner.
C6_DisjointCover ==
    status = "ok" =>
        /\ Refs(self.main_set) \cap ValRefs = {}
        /\ Refs(self.main_set) \cup ValRefs = Refs(data_list)
        /\ Len(self.main_set) + Cardinality(ValRefs) = Len(data_list)

\* a shuffled unpacked list split into a validation set and a main set
C6_Witness ==
    /\ status = "ok"
    /\ ~config.packed
    /\ config.shuffle
    /\ config.batch_size = 2
    /\ Len(listing) = MaxFiles
    /\ data_list /= listing
    /\ self.val_set /= NoList
    /\ Len(self.val_set) = 2
    /\ Len(self.main_set) >= 2

\* C7: epoch_steps * num_epochs >= max_steps after partitioning; a configured
\* max_steps is kept and num_epochs becomes the least integer with
\* epoch_steps * num_epochs >= max_steps, whatever num_epochs was configured;
\* without a configured max_steps, num_epochs is kept and max_steps becomes
\* epoch_steps * num_epochs.
C7_EpochsCoverSteps ==
    status = "ok" =>
        /\ self.epoch_steps * self.num_epochs >= self.max_steps
        /\ config.max_steps /= None =>
               /\ self.max_steps = config.max_steps
               /\ self.num_epochs >= 0
               /\ \A n \in 0..(self.num_epochs - 1) :
                      self.epoch_steps * n < self.max_steps
        /\ config.max_steps = None =>
               /\ self.num_epochs = config.num_epochs
               /\ self.max_steps = self.epoch_steps * self.num_epochs

\* a configured num_epochs overridden by the rounded-up quotient
C7_Witness ==
    /\ status = "ok"
    /\ config.max_steps = 3
    /\ config.num_epochs = 1
    /\ self.epoch_steps = 2
    /\ self.num_epochs = 2

\* the cases of C8: val_size >= the number of discovered entries, or
\* batch_size > the number of discovered entries
C8_Misconfigured ==
    \/ config.val_size /= None /\ config.val_size >= Len(listing)
    \/ config.batch_size > Len(listing)

NothingProduced ==
    /\ self.main_set = NoList
    /\ self.val_set = NoList
    /\ pc = "idle"
    /\ work = <<>>
    /\ yielded = <<>>

\* C8 as claimed: in packed and in unpacked mode such a configuration fails
\* with an assertion, with no main_set, no val_set and no batch.
C8_Claimed ==
    (status /= "new" /\ C8_Misconfigured) =>
        (status = "AssertionError" /\ NothingProduced)

\* C8: in unpacked mode such a configuration fails with an assertion, with
\* no main_set, no val_set and no batch; in packed mode partitioning fails
\* with an assertion exactly when a val_size is configured and
\* val_size // batch_size >= the number of discovered entries (batch_size is
\* not compared with it), and then too nothing is produced.
C8_FailsFast ==
    status /= "new" =>
        /\ (~config.packed /\ C8_Misconfigured) =>
               (status = "AssertionError" /\ NothingProduced)
        /\ config.packed =>
               /\ (status = "AssertionError") <=>
                      /\ config.val_size /= None
                      /\ config.val_size \div config.batch_size >= Len(listing)
               /\ status = "AssertionError" => NothingProduced

\* an unpacked configuration refused for its val_size alone
C8_Witness ==
    /\ status = "AssertionError"
    /\ ~config.packed
    /\ config.batch_size % config.group_size = 0
    /\ config.batch_size <= Len(listing)
    /\ Len(listing) % config.batch_size = 0
    /\ config.val_size = Len(listing)

\* a packed configuration refused
C8_WitnessPacked ==
    /\ status = "AssertionError"
    /\ config.packed
    /\ Len(listing) >= 1

(***************************************************************************)
(* Properties of group_shuffle.                                            *)
(***************************************************************************)
LabelsOf(list, from, to) == [p \in 1..(to - from) |-> list[from + p][2]]
CountLabel(list, from, to, l) ==
    Cardinality({p \in (from + 1)..to : list[p][2] = l})

\* the first window of the list as the grouping pass finds it: its first
\* batch_size / group_size entries carry distinct labels, and group_size - 1
\* further entries of each of these labels lie at later positions
FirstWindowCanBeGrouped ==
    LET groups == gs_args.batch_size \div gs_args.group_size
        reps == LabelsOf(gs_mid, 0, groups)
    IN  /\ Len(gs_mid) >= gs_args.batch_size
        /\ \A a, b \in 1..groups : reps[a] = reps[b] => a = b
        /\ \A a \in 1..groups :
               CountLabel(gs_mid, groups, Len(gs_mid), reps[a])
                   >= gs_args.group_size - 1

\* C9: when the first window can be grouped, group_shuffle leaves in it
\* exactly group_size entries of each label of its batch_size / group_size
\* representatives.
C9_GroupsByLabel ==
    (gs_pc = "returned" /\ FirstWindowCanBeGrouped) =>
        LET groups == gs_args.batch_size \div gs_args.group_size
            reps == LabelsOf(gs_mid, 0, groups)
        IN  \A a \in 1..groups :
                CountLabel(gs_out, 0, gs_args.batch_size, reps[a])
                    = gs_args.group_size

(***************************************************************************)
(* Properties of group_shuffle run statement by statement.                 *)
(***************************************************************************)
\* the pass of a window is running or has run; gs_frame holds its locals
InPass == gs_pc = "scan" \/ (gs_pc \in {"window", "returned"} /\ gs_frame.it > 0)

\* the pass was left by the break of line 95
LeftByBreak == gs_pc /= "scan" /\ gs_frame.k < gs_frame.upper

WindowEnd == gs_frame.i + gs_args.batch_size

DistinctRefs(list) ==
    \A a, b \in 1..Len(list) : list[a][1] = list[b][1] => a = b

Changed(list, from) == {p \in 0..(Len(list) - 1) : list[p + 1] /= from[p + 1]}

\* C11 as claimed: the pass of the window [i, i + batch_size) reads only
\* entries inside the window and leaves every entry at a position
\* >= i + batch_size unchanged.
C11_Claimed ==
    InPass =>
        /\ (gs_pc = "scan" /\ gs_frame.k < gs_frame.upper) => gs_frame.k < WindowEnd
        /\ \A p \in gs_frame.read : p < WindowEnd
        /\ \A p \in Changed(gs_frame.dataset, gs_frame.before) : p < WindowEnd

\* C11: the pass of the window [i, i + batch_size) reads the positions from
\* i + batch_groups on, one after the other, to the end of the list unless
\* the window is filled before; it leaves the entries below i + batch_groups
\* unchanged and changes only positions it has read and open positions of
\* the window; on a list with distinct references it changes nothing.
C11_ScanReach ==
    InPass =>
        LET f == gs_frame
            first == f.i + f.batch_groups
        IN  /\ f.k <= f.upper
            /\ f.upper = Len(f.dataset)
            /\ first <= f.j /\ f.j <= WindowEnd
            /\ f.read = {p \in first..(f.upper - 1) :
                             p < f.k \/ (LeftByBreak /\ p = f.k)}
            /\ (gs_pc /= "scan" /\ ~LeftByBreak) => f.read = first..(f.upper - 1)
            /\ \A p \in Changed(f.dataset, f.before) :
                   /\ p >= first
                   /\ p \in f.read \/ p < f.j
            /\ DistinctRefs(f.before) => f.dataset = f.before

\* an entry that lay beyond the window has been moved into it
C11_Witness ==
    /\ InPass
    /\ \E p \in Changed(gs_frame.dataset, gs_frame.before) :
           /\ p >= WindowEnd
           /\ gs_frame.before[p + 1] \in
                  {gs_frame.dataset[q + 1] : q \in gs_frame.i..(WindowEnd - 1)}
           /\ gs_frame.before[p + 1] \notin
                  {gs_frame.before[q + 1] : q \in gs_frame.i..(WindowEnd - 1)}

Count(list, e) == Cardinality({p \in 1..Len(list) : list[p] = e})

\* the same entries, each as often
SameEntries(a, b) == \A e \in Range(a) \cup Range(b) : Count(a, e) = Count(b, e)

\* len(dataset) once the trailing entries are dropped
TruncatedLen == Len(gs_args.dataset) - (Len(gs_args.dataset) % gs_args.batch_size)

\* C12 as claimed: when batch_size is not divisible by group_size the call
\* fails with the list as it was passed in.
C12_Claimed ==
    /\ gs_pc \in {"window", "scan", "returned"} =>
           gs_args.batch_size % gs_args.group_size = 0
    /\ gs_pc = "AssertionError" => gs_frame.dataset = gs_args.dataset

\* C12: when batch_size is not divisible by group_size, group_shuffle fails
\* with an assertion failure before the pass of any window, after the list
\* has been permuted (when shuffle is set) and its trailing
\* len % batch_size entries have been dropped: without shuffle the list is
\* left as its first batch_size * (len div batch_size) entries.
C12_FailsAfterTruncation ==
    /\ gs_pc \in {"window", "scan", "returned"} =>
           gs_args.batch_size % gs_args.group_size = 0
    /\ gs_pc = "AssertionError" =>
           /\ gs_args.batch_size % gs_args.group_size /= 0
           /\ gs_frame.before = <<>> /\ gs_frame.read = {}
           /\ gs_frame.dataset = gs_mid
           /\ Len(gs_frame.dataset) = TruncatedLen
           /\ \A e \in Range(gs_frame.dataset) :
                  Count(gs_frame.dataset, e) <= Count(gs_args.dataset, e)
           /\ ~gs_args.shuffle =>
                  gs_frame.dataset = SubSeq(gs_args.dataset, 1, TruncatedLen)

\* a failed call that has dropped a trailing entry of the caller's list
C12_Witness ==
    /\ gs_pc = "AssertionError"
    /\ ~gs_args.shuffle
    /\ Len(gs_frame.dataset) < Len(gs_args.dataset)

\* a failed call that has permuted the caller's list
C12_WitnessShuffled ==
    /\ gs_pc = "AssertionError"
    /\ gs_args.shuffle
    /\ Len(gs_frame.dataset) = Len(gs_args.dataset)
    /\ gs_frame.dataset /= gs_args.dataset

\* a finished first call with one sub-group per window, shuffle disabled, on a
\* list of whole windows
SingleGroupCall ==
    /\ gs_pc = "returned"
    /\ gs_frame.round = 1
    /\ gs_args.group_size = gs_args.batch_size
    /\ ~gs_args.shuffle
    /\ Len(gs_args.dataset) % gs_args.batch_size = 0

KeptPrefix == SubSeq(gs_args.dataset, 1, TruncatedLen)

\* C18: with shuffle disabled the list group_shuffle leaves, on return or on
\* a failed assertion and after every statement from the truncation on, has
\* length batch_size * (n div batch_size) and holds the first that many
\* entries of the input, each as often as the input does.
C18_PermutationOfPrefix ==
    (~gs_args.shuffle /\ gs_pc \in {"window", "scan", "returned", "AssertionError"}) =>
        /\ Len(gs_frame.dataset) = TruncatedLen
        /\ SameEntries(gs_frame.dataset, KeptPrefix)

\* a returned call that dropped a trailing entry and exchanged two entries
C18_Witness ==
    /\ gs_pc = "returned"
    /\ ~gs_args.shuffle
    /\ gs_frame.round = 1
    /\ Len(gs_args.dataset) % gs_args.batch_size /= 0
    /\ Len(gs_frame.dataset) >= gs_args.batch_size
    /\ gs_frame.dataset /= KeptPrefix

\* C19: with shuffle disabled, a second group_shuffle with the same
\* batch_size and group_size on the list the first one returned leaves every
\* entry at its position, after every statement and on return.
C19_Idempotent ==
    (gs_frame.round = 2 /\ gs_pc /= "call") =>
        /\ gs_pc /= "AssertionError"
        /\ gs_frame.dataset = gs_out

\* a second application returned on a list that the first one had regrouped
C19_Witness ==
    /\ gs_frame.round = 2
    /\ gs_pc = "returned"
    /\ gs_out /= gs_mid
    /\ Len(gs_out) >= 2 * gs_args.batch_size
    /\ gs_frame.dataset = gs_out

(***************************************************************************)
(* Properties of repeated generation calls.                                *)
(***************************************************************************)
\* C14: whatever calls were made, run to the end, failed or closed, and
\* whatever was yielded, main_set and val_set hold the entries the
\* partitioner put there, in the same order, and the running call's dataset
\* is that list; the reshuffle of an epoch > 0 goes to a copy.
C14_CallerListUnchanged ==
    /\ IF self.val_set = NoList THEN self.main_set = listing
       ELSE self.val_set \o self.main_set = listing
    /\ self.val_set /= NoList =>
           Len(self.val_set) = self.val_steps * PerStep(config)
    /\ pc /= "idle" => call.dataset = self[call.attr]
    /\ (executor /= "none" /\ epoch = 0) => _dataset = call.dataset

\* a batch of a reshuffled epoch has been yielded from a copy that differs
\* from main_set
C14_Witness ==
    /\ call.attr = "main_set"
    /\ call.shuffle
    /\ epoch >= 1
    /\ _dataset /= self.main_set
    /\ \E n \in 1..Len(yielded) : work[yielded[n]].epoch >= 1
    /\ self.main_set = SubSeq(listing, Len(listing) - Len(self.main_set) + 1,
                              Len(listing))

(***************************************************************************)
(* Properties of a failing unit of work.                                   *)
(***************************************************************************)
\* C15: the batches yielded are those of the units submitted first, in
\* order, each of a unit that succeeded; once a unit has failed the call
\* ends with the exception, raised by the result() of the first failed unit
\* when every batch before it has been yielded; from then on nothing is
\* submitted or yielded, and no step is submitted twice.
C15_FailureInOrder ==
    /\ [](/\ \A n \in 1..Len(yielded) :
                 /\ yielded[n] = n
                 /\ work[n].done /\ work[n].result.ok
          /\ \A a, b \in 1..Len(work) : a < b => work[a].gstep < work[b].gstep
          /\ (pc = "raised" /\ call.epoch_steps >= 1) =>
                 /\ awaiting = Len(yielded) + 1
                 /\ work[awaiting].done /\ ~work[awaiting].result.ok)
    /\ [][pc = "raised" =>
              /\ pc' = "raised"
              /\ yielded' = yielded
              /\ Len(work') = Len(work)]_vars
    /\ (UnitFailed ~> pc = "raised")

\* the second unit failed: its exception came after the first batch, with a
\* later unit already submitted
C15_Witness ==
    /\ pc = "raised"
    /\ awaiting = 2
    /\ Len(yielded) = 1
    /\ Len(work) >= 3

(***************************************************************************)
(* Properties of the worker pool.                                          *)
(***************************************************************************)
Exited == pc \in {"done", "raised", "closed"}

\* C16: whenever a generation call has ended (all steps yielded, an
\* exception raised, the generator closed by the consumer) its pool is being
\* shut down or is shut down, no pool exists unless the call was closed
\* before its first step, and a pool being shut down is eventually shut down.
C16_PoolShutDown ==
    /\ [](Exited => /\ executor \in {"none", "joining", "shutdown"}
                    /\ executor = "none" => (pc = "closed" /\ Len(work) = 0))
    /\ [][(~Exited /\ Exited' /\ executor = "open") => executor' = "joining"]_vars
    /\ ((Exited /\ executor /= "none") ~> executor = "shutdown")

\* a generator closed at a yield with units still in flight, its pool shut
\* down after they completed
C16_Witness ==
    /\ pc = "closed"
    /\ executor = "shutdown"
    /\ Len(futures) > 0
    /\ Len(yielded) > 0

\* an exception left the generation loop and the pool is shut down
C16_WitnessRaised ==
    /\ pc = "raised"
    /\ executor = "shutdown"
    /\ Len(futures) > 0

(***************************************************************************)
(* Properties of the amplitude normalisation.                              *)
(***************************************************************************)
AugmentationDisabled ==
    /\ ps_frame.config.pp_smooth = 0
    /\ ps_frame.config.pp_noise = 0
    /\ ps_frame.config.pp_amplitude = 0

\* some sample of magnitude above 1e-6, positive or negative
NonSilent(signal) ==
    \E i \in 1..Len(signal) : RatLess(Epsilon, RatAbs(signal[i]))

\* the maximum of |x| over all samples is exactly 1
PeakIsOne(signal) ==
    /\ \E i \in 1..Len(signal) : Abs(signal[i][1]) = signal[i][2]
    /\ \A i \in 1..Len(signal) : Abs(signal[i][1]) <= signal[i][2]

\* C17: with augmentation disabled, process_sample of a non-silent decoded
\* signal returns a signal whose peak absolute amplitude is exactly 1.
C17_Claimed ==
    (/\ ps_frame.pc = "returned"
     /\ AugmentationDisabled
     /\ NonSilent(ps_frame.decoded)) => PeakIsOne(ps_frame.data)

====
